---- MODULE Spec2Model ----
(***************************************************************************)
(* Model of the TorChat onion proxy (onion_proxy.go) and onion router      *)
(* (onion_router.go): circuit construction, onion layering and per-hop     *)
(* unlayering, and the relay-side circuit-key table.                       *)
(***************************************************************************)
EXTENDS Integers, Sequences, FiniteSets, TLC

(***************************************************************************)
(* Bounds of the model.                                                    *)
(***************************************************************************)
NumRelays == 3      \* onion routers, addressed 1..NumRelays ("" is 0)
MaxKey == 6         \* AES keys are drawn from 1..MaxKey
MaxIV == 1          \* initialisation vectors are drawn from 0..MaxIV

Relays == 1 .. NumRelays
NoAddr == 0                      \* the empty string as an address
Addresses == 0 .. NumRelays
Keys == 1 .. MaxKey
NoKey == 0                       \* the nil []byte a missing map entry yields
IVs == 0 .. MaxIV

\* Bytes.  Every serialised value is a sequence of bytes.
ByteMod == NumRelays + 4
Byte == 0 .. (ByteMod - 1)

\* The messages a client may ask the proxy to send (strings, as bytes).
Messages == { <<1>>, <<2, 0>> }

\* The node orders the directory server may hand out.
NodeOrders == { <<1, 2, 3>>, <<3, 3>> }

(***************************************************************************)
(* Serialisation (encoding/json).  An Onion is written as a leading object *)
(* tag, the exit flag, the next address and then the data; a ChatMessage   *)
(* as a tag, the IRC server address, the user name and the text.           *)
(* Unmarshal on bytes that are not such an object fails, and, as the error *)
(* is not looked at, leaves the zero value in the target.                  *)
(***************************************************************************)
OnionTag == NumRelays + 3
ChatTag == NumRelays + 2

ZeroOnion == [Data |-> <<>>, IsExitNode |-> FALSE, NextAddress |-> NoAddr]

JsonMarshalOnion(o) ==
    <<OnionTag, IF o.IsExitNode THEN 1 ELSE 0, o.NextAddress>> \o o.Data

\* json.Unmarshal(b, &onion) returns no error.
IsOnionJson(b) ==
    Len(b) >= 3 /\ b[1] = OnionTag /\ b[2] \in {0, 1} /\ b[3] \in Addresses

JsonUnmarshalOnion(b) ==
    IF IsOnionJson(b)
    THEN [Data |-> SubSeq(b, 4, Len(b)),
          IsExitNode |-> (b[2] = 1),
          NextAddress |-> b[3]]
    ELSE ZeroOnion

ZeroChatMessage == [IRCServerAddr |-> NoAddr, Username |-> 0, Message |-> <<>>]

JsonMarshalChat(m) ==
    <<ChatTag, m.IRCServerAddr, m.Username>> \o m.Message

JsonUnmarshalChat(b) ==
    IF Len(b) >= 3 /\ b[1] = ChatTag
    THEN [IRCServerAddr |-> b[2], Username |-> b[3],
          Message |-> SubSeq(b, 4, Len(b))]
    ELSE ZeroChatMessage

(***************************************************************************)
(* AES in cipher-feedback mode, with one-byte blocks: each ciphertext byte *)
(* is the plaintext byte plus the block cipher applied to the previous     *)
(* ciphertext byte (the IV for the first).  The IV is prefixed.            *)
(***************************************************************************)
BlockCipher(key, x) == (key * (x + 1)) % ByteMod

RECURSIVE CFBEncrypter(_, _, _)
CFBEncrypter(key, prev, plain) ==
    IF plain = <<>> THEN <<>>
    ELSE LET c == (Head(plain) + BlockCipher(key, prev)) % ByteMod
         IN  <<c>> \o CFBEncrypter(key, c, Tail(plain))

RECURSIVE CFBDecrypter(_, _, _)
CFBDecrypter(key, prev, ct) ==
    IF ct = <<>> THEN <<>>
    ELSE <<(Head(ct) + ByteMod - BlockCipher(key, prev)) % ByteMod>>
         \o CFBDecrypter(key, Head(ct), Tail(ct))

\* len(op.ORInfoByHopNum): the table's keys are always 0 .. n-1.
HopCount(table) == Cardinality(DOMAIN table)

\* A mutant of OnionizeLayer: the exit flag is put on the outermost layer.
OnionizeLayerExitAtGuard(table, hopNum, encryptedLayer, iv) ==
    LET unencryptedLayer ==
            [Data |-> encryptedLayer,
             IsExitNode |-> (hopNum = 0),
             NextAddress |-> IF hopNum = 0 THEN NoAddr
                             ELSE table[hopNum].address]
    IN  <<iv>> \o CFBEncrypter(table[hopNum].sharedKey, iv,
                               JsonMarshalOnion(unencryptedLayer))

\* One iteration of the loop of OnionizeData: wrap encryptedLayer for hopNum.
OnionizeLayer(table, hopNum, encryptedLayer, iv) ==
    LET unencryptedLayer ==
            [Data |-> encryptedLayer,
             IsExitNode |-> (hopNum = HopCount(table) - 1),
             NextAddress |-> IF hopNum = HopCount(table) - 1 THEN NoAddr
                             ELSE table[hopNum + 1].address]
    IN  <<iv>> \o CFBEncrypter(table[hopNum].sharedKey, iv,
                               JsonMarshalOnion(unencryptedLayer))

RECURSIVE OnionizeFrom(_, _, _, _)
OnionizeFrom(table, hopNum, encryptedLayer, ivs) ==
    IF hopNum < 0 THEN encryptedLayer
    ELSE OnionizeFrom(table, hopNum - 1,
                      OnionizeLayer(table, hopNum, encryptedLayer, ivs[hopNum]),
                      ivs)

\* OnionizeData on a table no one writes meanwhile; ivs[h] is the IV read
\* from rand.Reader in the iteration for hop h.
OnionizeData(table, coreData, ivs) ==
    OnionizeFrom(table, HopCount(table) - 1, coreData, ivs)

\* The relay's one-layer decrypt: split the IV, decrypt, unmarshal.
DecryptLayer(key, data) ==
    JsonUnmarshalOnion(CFBDecrypter(key, Head(data), Tail(data)))

(***************************************************************************)
(* Key wrapping (util.RSAEncrypt / util.RSADecrypt): only the private key  *)
(* that belongs to the public key recovers the wrapped key.  Relay r holds *)
(* the key pair (r, r).                                                    *)
(***************************************************************************)
RSAEncrypt(pubKey, sharedKey) == [pub |-> pubKey, key |-> sharedKey]

RSADecrypt(privKey, ct) == IF ct.pub = privKey THEN ct.key ELSE NoKey

\* util.GenerateAESKey: a fresh key, the n-th one handed out.
GenerateAESKey(n) == 1 + (n % MaxKey)

\* math_rand.Uint32(): the n-th value of the generator; successive values
\* differ.
Uint32(n) == n + 1

\* io.ReadFull(rand.Reader, iv): a fresh IV, the n-th one read.
ReadIV(n) == n % (MaxIV + 1)

\* util.HandleFatalError(msg, err): a non-nil error ends the process.
HandleFatalError(err) == err # "nil"

(***************************************************************************)
(* The directory server's answer to GetNodes.                              *)
(***************************************************************************)
directoryServerPubKey == 1
OtherSignerKey == directoryServerPubKey + 1
SignerKeys == {directoryServerPubKey, OtherSignerKey}

\* SigValid is what ecdsa.Verify(PubKey, Hash, SigR, SigS) yields.
NodeSet(o, k, v) ==
    [ORInfos |-> [i \in 1 .. Len(o) |-> [Address |-> o[i], PubKey |-> o[i]]],
     PubKey |-> k, SigValid |-> v]

\* Node sets the pinned key has signed, one signed by another key, and one
\* whose signature does not verify.
NodeSets ==
    { NodeSet(o, directoryServerPubKey, TRUE) : o \in NodeOrders }
    \cup { NodeSet(<<1, 2, 3>>, OtherSignerKey, TRUE),
           NodeSet(<<1, 2, 3>>, directoryServerPubKey, FALSE) }

NoORSet == [ORInfos |-> <<>>, PubKey |-> 0, SigValid |-> FALSE]

\* A mutant of TrustedDirectoryServer: the signature is not verified.
TrustedSignerOnly(ORSet) == ORSet.PubKey = directoryServerPubKey

\* The check of GetCircuitFromDServer that the node set came from the
\* trusted directory server.
TrustedDirectoryServer(ORSet) ==
    ~ (ORSet.PubKey # directoryServerPubKey \/ ~ ORSet.SigValid)

(***************************************************************************)
(* State.                                                                  *)
(***************************************************************************)
MaxTicks == 1       \* renewal periods that elapse per renewal goroutine
MaxSends == 2       \* SendMessage calls the client makes
MaxBuilds == 2      \* runs of GetCircuitFromDServer in all
MaxFaults == 1      \* calls that end in a transport error
MaxCalls == 2       \* inbound calls one onion router serves at a time
MaxBeats == 2       \* heartbeat periods of one onion router

CircuitIds == 1 .. MaxBuilds
Usernames == {1}
IrcAddr == NumRelays + 1         \* the IRC server address given to the proxy

\* The Connect calls made: two, so that two run at the same time.  Each one
\* that succeeds starts a renewal goroutine.
ConnectIds == {1, 2}
RenewOf(c) == c + Cardinality(ConnectIds)
Builders == ConnectIds \cup {RenewOf(c) : c \in ConnectIds}
IsRenewal(b) == b \notin ConnectIds
SendIds == 1 .. MaxSends

VARIABLES
    opAlive,                \* the onion proxy process runs
    username,               \* OnionProxy.username
    circuitId,              \* OnionProxy.circuitId
    ORInfoByHopNum,         \* OnionProxy.ORInfoByHopNum
    build,                  \* the runs of GetCircuitFromDServer, per caller
    send,                   \* the SendMessage calls and their cells
    orAlive,                \* per onion router: the process runs
    sharedKeysByCircuitId,  \* per onion router: its circuit-key table
    builds,                 \* history: one record per build started
    kxLog,                  \* history: the SendCircuitInfo calls made
    faults,                 \* history: the transport errors so far
    keysMade,               \* the keys util.GenerateAESKey has handed out
    ivsMade,                \* the IVs read from rand.Reader
    rt,                     \* a round trip of the codec on its own
    rp                      \* one onion router process, goroutine by goroutine

vars == <<opAlive, username, circuitId, ORInfoByHopNum, build, send, orAlive,
          sharedKeysByCircuitId, builds, kxLog, faults, keysMade, ivsMade, rt, rp>>

proxyVars == <<opAlive, username, circuitId, ORInfoByHopNum>>
relayVars == <<orAlive, sharedKeysByCircuitId>>
buildVars == <<build, builds, kxLog>>
histVars == <<kxLog, faults>>
randVars == <<keysMade, ivsMade>>

IdleBuild == [pc |-> "idle", ORSet |-> NoORSet, hopNum |-> 0,
              sharedKey |-> NoKey, no |-> 0, ticks |-> 0]

\* No cell in flight; a cell in flight is a shared.Cell and the relay it is
\* on its way to.
None == [relay |-> 0, data |-> <<>>, cid |-> 0]

IdleSend == [pc |-> "idle", msg |-> <<>>, hopNum |-> 0,
             encryptedLayer |-> <<>>, cid |-> 0,
             down |-> None, waiting |-> <<>>, resp |-> "none",
             orphan |-> FALSE,
             cidBuild |-> 0, layerBuilds |-> {}, partial |-> FALSE,
             startSeq |-> 0, clean |-> FALSE, pathUp |-> FALSE,
             failed |-> FALSE,
             trail |-> <<>>, pubs |-> <<>>]

RtOff == [phase |-> "off"]

RpOff == [alive |-> FALSE]

InitProtocol ==
    /\ opAlive = TRUE
    /\ username = 0
    /\ circuitId = 0
    /\ ORInfoByHopNum = <<>>
    /\ build = [b \in Builders |-> IdleBuild]
    /\ send = [s \in SendIds |-> IdleSend]
    /\ orAlive = [r \in Relays |-> TRUE]
    /\ sharedKeysByCircuitId = [r \in Relays |-> [c \in CircuitIds |-> NoKey]]
    /\ builds = <<>>
    /\ kxLog = {}
    /\ faults = 0
    /\ keysMade = 0
    /\ ivsMade = 0

Init == InitProtocol /\ rt = RtOff /\ rp = RpOff

(***************************************************************************)
(* Circuit construction: OPServer.Connect, GetNewCircuitEveryTwoMinutes    *)
(* and GetCircuitFromDServer.                                              *)
(***************************************************************************)
\* The first statement of GetCircuitFromDServer: a new circuit id.
StartBuild(b, ticks) ==
    /\ Len(builds) < MaxBuilds
    /\ circuitId' = Uint32(Len(builds))
    /\ builds' = Append(builds, [status |-> "running", signer |-> 0,
                                 sigValid |-> FALSE, order |-> <<>>])
    /\ build' = [build EXCEPT ![b] = [IdleBuild EXCEPT !.pc = "fetch",
                                                       !.no = Len(builds) + 1,
                                                       !.ticks = ticks]]

\* OPServer.Connect up to the first statement of GetCircuitFromDServer.
Connect(c) ==
    /\ opAlive
    /\ build[c].pc = "idle"
    /\ \E u \in Usernames : username' = u
    /\ StartBuild(c, 0)
    /\ UNCHANGED <<opAlive, ORInfoByHopNum, histVars, randVars, send, relayVars, rt, rp>>

\* time.After fires in GetNewCircuitEveryTwoMinutes.
RenewTick(b) ==
    /\ opAlive
    /\ IsRenewal(b)
    /\ build[b].pc = "wait"
    /\ build[b].ticks < MaxTicks
    /\ StartBuild(b, build[b].ticks + 1)
    /\ UNCHANGED <<opAlive, username, ORInfoByHopNum, histVars, randVars, send, relayVars, rt, rp>>

\* history: what a build has fetched and where it stands.
Fetched(status, ORSet) ==
    [status |-> status, signer |-> ORSet.PubKey, sigValid |-> ORSet.SigValid,
     order |-> [i \in 1 .. Len(ORSet.ORInfos) |-> ORSet.ORInfos[i].Address]]

\* GetCircuitFromDServer returns err to its caller: Connect returns it; the
\* loop of GetNewCircuitEveryTwoMinutes returns, which ends the goroutine.
ReturnErr(b, no, ORSet) ==
    /\ build' = [build EXCEPT ![b] = [IdleBuild EXCEPT
                     !.pc = IF IsRenewal(b) THEN "stopped" ELSE "failed",
                     !.ticks = build[b].ticks]]
    /\ builds' = [builds EXCEPT ![no] = Fetched("trustError", ORSet)]

\* GetCircuitFromDServer returns nil: Connect starts the renewal goroutine
\* and returns; the renewal loop waits for the next period.
ReturnNil(b, no, ORSet) ==
    /\ build' = IF IsRenewal(b)
                THEN [build EXCEPT ![b] = [IdleBuild EXCEPT
                                              !.pc = "wait",
                                              !.ticks = build[b].ticks]]
                ELSE [build EXCEPT ![b] = [IdleBuild EXCEPT !.pc = "connected"],
                                   ![RenewOf(b)] = [IdleBuild EXCEPT !.pc = "wait"]]
    /\ builds' = [builds EXCEPT ![no] = Fetched("complete", ORSet)]

\* The GetNodes call and the check of its answer.
BuildFetch(b) ==
    /\ opAlive
    /\ build[b].pc = "fetch"
    /\ \E ORSet \in NodeSets :
          IF ~ TrustedDirectoryServer(ORSet)
          THEN ReturnErr(b, build[b].no, ORSet)
          ELSE /\ build' = [build EXCEPT ![b].pc = "hop", ![b].ORSet = ORSet,
                                         ![b].hopNum = 0]
               /\ builds' = [builds EXCEPT ![build[b].no] = Fetched("running", ORSet)]
    /\ UNCHANGED <<proxyVars, histVars, randVars, send, relayVars, rt, rp>>

\* The hop the build is at.
BuildHop(b) == build[b].ORSet.ORInfos[build[b].hopNum + 1]

\* A mutant of SendCircuitInfo: storing a key drops the relay's other entries.
SendCircuitInfoEvicting(table, r, circuitInfo) ==
    [table EXCEPT ![r] =
        [c \in DOMAIN table[r] |->
            IF c = circuitInfo.CircuitId
            THEN RSADecrypt(r, circuitInfo.EncryptedSharedKey)
            ELSE NoKey]]

\* A mutant of SendCircuitInfo: the key is stored under every circuit id.
SendCircuitInfoOneKey(table, r, circuitInfo) ==
    [table EXCEPT ![r] =
        [c \in DOMAIN table[r] |->
            RSADecrypt(r, circuitInfo.EncryptedSharedKey)]]

\* ORServer.SendCircuitInfo at relay r: unwrap the key and store it.
SendCircuitInfo(table, r, circuitInfo) ==
    [table EXCEPT ![r][circuitInfo.CircuitId] =
        RSADecrypt(r, circuitInfo.EncryptedSharedKey)]

\* One loop iteration of GetCircuitFromDServer up to the end of the call:
\* a fresh key, wrapped for the hop, sent with the circuit id the proxy
\* holds now; the relay stores it and acknowledges.
BuildKeyExchange(b) ==
    /\ opAlive
    /\ build[b].pc = "hop"
    /\ orAlive[BuildHop(b).Address]
    /\ keysMade' = keysMade + 1
    /\ LET sharedKey == GenerateAESKey(keysMade) IN
          LET circuitInfo ==
                  [CircuitId |-> circuitId,
                   EncryptedSharedKey |-> RSAEncrypt(BuildHop(b).PubKey, sharedKey)]
          IN  /\ sharedKeysByCircuitId' =
                     SendCircuitInfo(sharedKeysByCircuitId, BuildHop(b).Address,
                                     circuitInfo)
              /\ build' = [build EXCEPT ![b].pc = "record",
                                        ![b].sharedKey = sharedKey]
              /\ kxLog' = kxLog \cup {[build |-> build[b].no,
                                         hopNum |-> build[b].hopNum,
                                         relay |-> BuildHop(b).Address,
                                         pubKey |-> BuildHop(b).PubKey,
                                         key |-> sharedKey,
                                         cid |-> circuitId, ok |-> TRUE]}
    /\ UNCHANGED <<proxyVars, builds, send, orAlive, faults, ivsMade, rt, rp>>

\* The same iteration when client.Call returns an error (the connection
\* breaks before the relay has the request): the error is not looked at.
BuildKeyExchangeFails(b) ==
    /\ opAlive
    /\ build[b].pc = "hop"
    /\ orAlive[BuildHop(b).Address]
    /\ faults < MaxFaults
    /\ faults' = faults + 1
    /\ keysMade' = keysMade + 1
    /\ build' = [build EXCEPT ![b].pc = "record",
                              ![b].sharedKey = GenerateAESKey(keysMade)]
    /\ kxLog' = kxLog \cup {[build |-> build[b].no,
                               hopNum |-> build[b].hopNum,
                               relay |-> BuildHop(b).Address,
                               pubKey |-> BuildHop(b).PubKey,
                               key |-> GenerateAESKey(keysMade),
                               cid |-> circuitId, ok |-> FALSE]}
    /\ UNCHANGED <<proxyVars, builds, send, relayVars, ivsMade, rt, rp>>

\* DialOR to a relay that does not run: HandleFatalError ends the proxy.
BuildDialFails(b) ==
    /\ opAlive
    /\ build[b].pc = "hop"
    /\ ~ orAlive[BuildHop(b).Address]
    /\ HandleFatalError("dial")
    /\ opAlive' = FALSE
    /\ builds' = [builds EXCEPT ![build[b].no].status = "fatal"]
    /\ UNCHANGED <<username, circuitId, ORInfoByHopNum, build,
                   histVars, randVars, send, relayVars, rt, rp>>

\* A mutant of HopEntry: the key recorded is not the key that was sent.
HopEntryOtherKey(b) ==
    [address |-> BuildHop(b).Address, pubKey |-> BuildHop(b).PubKey,
     sharedKey |-> GenerateAESKey(build[b].sharedKey), build |-> build[b].no]

\* The entry GetCircuitFromDServer writes for the hop it has just served.
HopEntry(b) ==
    [address |-> BuildHop(b).Address, pubKey |-> BuildHop(b).PubKey,
     sharedKey |-> build[b].sharedKey, build |-> build[b].no]

\* op.ORInfoByHopNum[hopNum] = &orInfo{...}
PutHop(table, hopNum, entry) ==
    [h \in (DOMAIN table) \cup {hopNum} |->
        IF h = hopNum THEN entry ELSE table[h]]

\* The rest of the iteration: record the hop, then go on to the next hop or
\* return nil.
BuildRecord(b) ==
    /\ opAlive
    /\ build[b].pc = "record"
    /\ ORInfoByHopNum' = PutHop(ORInfoByHopNum, build[b].hopNum, HopEntry(b))
    /\ IF build[b].hopNum + 1 < Len(build[b].ORSet.ORInfos)
       THEN /\ build' = [build EXCEPT ![b].pc = "hop", ![b].hopNum = @ + 1,
                                      ![b].sharedKey = NoKey]
            /\ UNCHANGED builds
       ELSE ReturnNil(b, build[b].no, build[b].ORSet)
    /\ UNCHANGED <<opAlive, username, circuitId, histVars, send,
                   randVars, relayVars, rt, rp>>

BuildStep(b) ==
    \/ RenewTick(b)
    \/ BuildFetch(b)
    \/ BuildKeyExchange(b)
    \/ BuildRecord(b)

\* The steps of a build that meets a transport error.
BuildFault(b) ==
    \/ BuildKeyExchangeFails(b)
    \/ BuildDialFails(b)

\* Circuit construction alone, with every relay up and every call answered:
\* the Connect calls and the renewal goroutines, side by side.
NextBuild ==
    \/ \E c \in ConnectIds : Connect(c)
    \/ \E b \in Builders : BuildStep(b)

SpecBuild == Init /\ [][NextBuild]_vars

\* C2: a build whose node set names a signer other than the pinned key, or
\* carries a signature that does not verify, ends with the trust error, and
\* no SendCircuitInfo call is made in that build.
TrustRejection ==
    \A n \in 1 .. Len(builds) :
        (builds[n].signer # 0
         /\ (builds[n].signer # directoryServerPubKey \/ ~ builds[n].sigValid))
        => /\ builds[n].status = "trustError"
           /\ \A k \in kxLog : k.build # n

\* A renewal is refused for a bad signature after a build that exchanged keys.
TrustRejectionWitness ==
    \E n \in 2 .. Len(builds) :
        /\ builds[n].status = "trustError"
        /\ builds[n].signer = directoryServerPubKey
        /\ ~ builds[n].sigValid
        /\ \E b \in Builders : build[b].pc = "stopped"
        /\ \E k \in kxLog : k.build = n - 1

(***************************************************************************)
(* Sending: OPServer.SendMessage, OnionizeData, SendChatMessageOnion.      *)
(***************************************************************************)
BuildRunning == \E b \in Builders : build[b].pc \in {"fetch", "hop", "record"}

\* The proxy holds a circuit of one completed build: no build runs, the build
\* that set circuitId has returned nil, and every hop entry is of that build.
CircuitComplete ==
    /\ ~ BuildRunning
    /\ builds # <<>>
    /\ builds[Len(builds)].status = "complete"
    /\ \A h \in DOMAIN ORInfoByHopNum : ORInfoByHopNum[h].build = Len(builds)

\* Every relay in the hop table runs.
PathUp == \A h \in DOMAIN ORInfoByHopNum : orAlive[ORInfoByHopNum[h].address]

\* SendMessage up to the first test of the loop of OnionizeData.  The client
\* makes its calls one after another: call s follows the return of call s-1.
SendMessage(s) ==
    /\ opAlive
    /\ send[s].pc = "idle"
    /\ \A t \in SendIds : t < s => send[t].pc = "done"
    /\ \E m \in Messages :
          send' = [send EXCEPT ![s] = [IdleSend EXCEPT
              !.pc = "onion",
              !.msg = m,
              !.encryptedLayer =
                  JsonMarshalChat([IRCServerAddr |-> IrcAddr,
                                   Username |-> username, Message |-> m]),
              !.hopNum = HopCount(ORInfoByHopNum) - 1,
              !.startSeq = Len(builds),
              !.clean = CircuitComplete,
              !.pathUp = PathUp]]
    /\ UNCHANGED <<proxyVars, buildVars, faults, randVars, relayVars, rt, rp>>

\* One iteration of the loop of OnionizeData, on the table as it is now.
SendOnionize(s) ==
    /\ opAlive
    /\ send[s].pc = "onion"
    /\ send[s].hopNum >= 0
    /\ ivsMade' = ivsMade + 1
    /\ LET iv == ReadIV(ivsMade) IN
          LET h == send[s].hopNum
              used == {h} \cup (IF h = HopCount(ORInfoByHopNum) - 1 THEN {}
                                ELSE {h + 1})
          IN  send' = [send EXCEPT
                  ![s].encryptedLayer =
                      OnionizeLayer(ORInfoByHopNum, h, send[s].encryptedLayer, iv),
                  ![s].hopNum = h - 1,
                  ![s].layerBuilds = @ \cup {ORInfoByHopNum[u].build : u \in used},
                  ![s].partial = @ \/ \E u \in used :
                      builds[ORInfoByHopNum[u].build].status # "complete"]
    /\ UNCHANGED <<proxyVars, buildVars, faults, keysMade, relayVars, rt, rp>>


\* SendChatMessageOnion with no hop 0 in the table: the nil *orInfo is
\* dereferenced, and the panic ends the proxy.
SendPanics(s) ==
    /\ opAlive
    /\ send[s].pc = "onion"
    /\ send[s].hopNum < 0
    /\ 0 \notin DOMAIN ORInfoByHopNum
    /\ opAlive' = FALSE
    /\ send' = [send EXCEPT ![s].pc = "panic"]
    /\ UNCHANGED <<username, circuitId, ORInfoByHopNum,
                   buildVars, faults, randVars, relayVars, rt, rp>>

\* SendChatMessageOnion when the guard does not run: DialOR is fatal.
SendDialFails(s) ==
    /\ opAlive
    /\ send[s].pc = "onion"
    /\ send[s].hopNum < 0
    /\ 0 \in DOMAIN ORInfoByHopNum
    /\ ~ orAlive[ORInfoByHopNum[0].address]
    /\ HandleFatalError("dial")
    /\ opAlive' = FALSE
    /\ send' = [send EXCEPT ![s].pc = "fatal"]
    /\ UNCHANGED <<username, circuitId, ORInfoByHopNum,
                   buildVars, faults, randVars, relayVars, rt, rp>>

\* SendChatMessageOnion: the cell, with the circuit id the proxy holds now,
\* goes to the guard in a blocking call.
SendChatMessageOnion(s) ==
    /\ opAlive
    /\ send[s].pc = "onion"
    /\ send[s].hopNum < 0
    /\ 0 \in DOMAIN ORInfoByHopNum
    /\ orAlive[ORInfoByHopNum[0].address]
    /\ send' = [send EXCEPT
           ![s].pc = "call",
           ![s].cid = circuitId,
           ![s].cidBuild = Len(builds),
           ![s].down = [relay |-> ORInfoByHopNum[0].address,
                        data |-> send[s].encryptedLayer,
                        cid |-> circuitId]]
    /\ UNCHANGED <<proxyVars, buildVars, faults, randVars, relayVars, rt, rp>>

(***************************************************************************)
(* The relay: ORServer.DecryptChatMessageCell and what it calls.           *)
(***************************************************************************)
FirstIndex(w, r) ==
    IF \E j \in 1 .. Len(w) : w[j] = r
    THEN CHOOSE j \in 1 .. Len(w) : w[j] = r /\ \A i \in 1 .. (j - 1) : w[i] # r
    ELSE 0

\* What the end of relay process r means for one call chain: the caller of
\* r's handler sees its call fail; a cell further down goes on, with no one
\* waiting for its result.
AfterCrash(sd, r) ==
    LET j == FirstIndex(sd.waiting, r)
        down == IF sd.down.relay = r THEN None ELSE sd.down
    IN  IF j > 0
        THEN [sd EXCEPT !.waiting = SubSeq(sd.waiting, 1, j - 1),
                        !.resp = "connLost",
                        !.down = down,
                        !.orphan = (down # None),
                        !.failed = @ \/ j > 1]
        ELSE IF sd.down # None /\ sd.down.relay = r
        THEN [sd EXCEPT !.down = None,
                        !.orphan = FALSE,
                        !.resp = IF sd.orphan THEN @ ELSE "connLost",
                        !.failed = @ \/ (~ sd.orphan /\ sd.waiting # <<>>)]
        ELSE sd

\* A panic in a handler goroutine, or HandleFatalError, ends the relay.
Crash(sends, r) ==
    /\ orAlive' = [orAlive EXCEPT ![r] = FALSE]
    /\ send' = [s \in SendIds |-> AfterCrash(sends[s], r)]

\* The error DecryptChatMessageCell returns once RelayChatMessageOnion has
\* returned err: err is not looked at.
RelayResult(err) == "nil"

\* DeliverChatMessage dials the address in the message; with no client the
\* Call panics.
CanPublish(chat) == chat.IRCServerAddr = IrcAddr

\* rpc.Dial reaches a relay that runs, and nothing else.
CanDial(addr) == addr \in Relays /\ orAlive[addr]

\* sharedKeysByCircuitId[cell.CircuitId] at relay r: nil if there is no entry.
KeyFor(table, r, cid) == IF cid \in DOMAIN table[r] THEN table[r][cid] ELSE NoKey

\* A mutant of RelayChatMessageOnion: the circuit id is left out of the cell.
RelayChatMessageOnionNoCircuit(nextORAddress, nextOnion, circId) ==
    [relay |-> nextORAddress, data |-> nextOnion, cid |-> 0]

\* RelayChatMessageOnion: the cell sent on, and the relay it is sent to.
RelayChatMessageOnion(nextORAddress, nextOnion, circId) ==
    [relay |-> nextORAddress, data |-> nextOnion, cid |-> circId]

\* The decrypted bytes of the cell unmarshal into an Onion.
Decodes(key, data) == IsOnionJson(CFBDecrypter(key, Head(data), Tail(data)))

\* DecryptChatMessageCell at the relay the cell of send s has reached.
DecryptChatMessageCell(s) ==
    LET r == send[s].down.relay
        key == KeyFor(sharedKeysByCircuitId, r, send[s].down.cid)
        onion == DecryptLayer(key, send[s].down.data)
        chat == JsonUnmarshalChat(onion.Data)
        seen == [relay |-> r, known |-> key # NoKey,
                 decoded |-> key # NoKey /\ Decodes(key, send[s].down.data),
                 exit |-> key # NoKey /\ onion.IsExitNode,
                 next |-> IF key # NoKey THEN onion.NextAddress ELSE NoAddr,
                 left |-> IF key # NoKey THEN Len(onion.Data) ELSE 0,
                 outcome |-> IF key = NoKey THEN "panic"
                             ELSE IF onion.IsExitNode
                             THEN IF CanPublish(chat) THEN "delivered"
                                  ELSE "panic"
                             ELSE IF CanDial(onion.NextAddress)
                             THEN "forwarded" ELSE "fatal"]
        logged == [send EXCEPT ![s].trail = Append(@, seen)]
    IN  /\ send[s].down # None
        /\ IF key = NoKey
           THEN \* aes.NewCipher fails; NewCFBDecrypter on the nil Block panics
                Crash(logged, r)
           ELSE IF onion.IsExitNode
           THEN IF CanPublish(chat)
                THEN /\ send' = [logged EXCEPT
                            ![s].pubs = Append(@, [user |-> chat.Username,
                                                   text |-> chat.Message]),
                            ![s].down = None,
                            ![s].orphan = FALSE,
                            ![s].resp = IF send[s].orphan THEN @ ELSE "nil"]
                     /\ UNCHANGED orAlive
                ELSE Crash(logged, r)
           ELSE IF CanDial(onion.NextAddress)
           THEN /\ send' = [logged EXCEPT
                       ![s].waiting = IF send[s].orphan THEN @ ELSE Append(@, r),
                       ![s].down = RelayChatMessageOnion(onion.NextAddress,
                                                         onion.Data,
                                                         send[s].down.cid)]
                /\ UNCHANGED orAlive
           ELSE \* DialOR fails and HandleFatalError ends the relay
                Crash(logged, r)
        /\ UNCHANGED <<proxyVars, buildVars, faults, randVars,
                       sharedKeysByCircuitId, rt, rp>>

\* The call of RelayChatMessageOnion returns at the relay that waits on top
\* of the chain, and its own handler returns.
RelayReturn(s) ==
    /\ send[s].resp # "none"
    /\ send[s].waiting # <<>>
    /\ send' = [send EXCEPT
           ![s].resp = RelayResult(send[s].resp),
           ![s].waiting = SubSeq(@, 1, Len(@) - 1)]
    /\ UNCHANGED <<proxyVars, buildVars, faults, randVars, relayVars, rt, rp>>

\* The call to the guard returns in SendChatMessageOnion.
SendReturn(s) ==
    /\ opAlive
    /\ send[s].pc = "call"
    /\ send[s].resp # "none"
    /\ send[s].waiting = <<>>
    /\ IF HandleFatalError(send[s].resp)
       THEN /\ opAlive' = FALSE
            /\ send' = [send EXCEPT ![s].pc = "fatal", ![s].resp = "none"]
       ELSE /\ opAlive' = opAlive
            /\ send' = [send EXCEPT ![s].pc = "done", ![s].resp = "none"]
    /\ UNCHANGED <<username, circuitId, ORInfoByHopNum,
                   buildVars, faults, randVars, relayVars, rt, rp>>

SendStep(s) ==
    \/ SendMessage(s)
    \/ SendOnionize(s)
    \/ SendPanics(s)
    \/ SendDialFails(s)
    \/ SendChatMessageOnion(s)
    \/ DecryptChatMessageCell(s)
    \/ RelayReturn(s)
    \/ SendReturn(s)

\* One client session: a Connect call, the renewal goroutine it starts, the
\* SendMessage calls, and the relays.
Session == 1

Next ==
    \/ Connect(Session)
    \/ \E b \in {Session, RenewOf(Session)} : BuildStep(b) \/ BuildFault(b)
    \/ \E s \in SendIds : SendStep(s)

Spec == Init /\ [][Next]_vars

\* Every Connect call and every goroutine of the proxy, and the relays.
NextAll ==
    \/ \E c \in ConnectIds : Connect(c)
    \/ \E b \in Builders : BuildStep(b) \/ BuildFault(b)
    \/ \E s \in SendIds : SendStep(s)

SpecAll == Init /\ [][NextAll]_vars

(***************************************************************************)
(* Properties of the relay and of sending.                                 *)
(***************************************************************************)
\* What the relays have seen of the cells: one record per handler run.
Handled == { x \in [send : SendIds, at : 1 .. (2 * NumRelays)] :
                x.at <= Len(send[x.send].trail) }

At(x) == send[x.send].trail[x.at]

\* C3: a relay that receives a cell whose circuit id is not in its table
\* returns an UnknownCircuit failure to its caller, and neither forwards the
\* cell nor delivers it.
UnknownCircuitFails ==
    \A x \in Handled :
        ~ At(x).known => At(x).outcome = "UnknownCircuit"

\* C4: a relay that has received a cell with an unknown circuit id is still
\* running.
RelaySurvivesUnknownCircuit ==
    \A x \in Handled :
        ~ At(x).known => orAlive[At(x).relay]

\* C5: a send that starts on a complete circuit puts into its cell the
\* circuit id of that build, and wraps every layer with a hop entry of that
\* same build, whatever the renewal goroutine does meanwhile.
CircuitSnapshot ==
    \A s \in SendIds :
        (send[s].clean /\ send[s].cidBuild # 0)
        => /\ send[s].cidBuild = send[s].startSeq
           /\ send[s].layerBuilds = {send[s].startSeq}

\* C6: once a SendCircuitInfo call of a build has failed, that build
\* contacts no later hop, records no hop in the hop table, and does not
\* complete.
PerHopFailureAborts ==
    \A k \in kxLog :
        ~ k.ok
        => /\ \A k2 \in kxLog : k2.build = k.build => k2.hopNum <= k.hopNum
           /\ \A h \in DOMAIN ORInfoByHopNum : ORInfoByHopNum[h].build # k.build
           /\ builds[k.build].status # "complete"

\* C7: a cell that SendMessage has sent to the guard was wrapped for at least
\* one hop, and every hop entry it was wrapped with belonged, when it was
\* read, to a build that had completed.
IncompleteNeverUsed ==
    \A s \in SendIds :
        send[s].cidBuild # 0
        => /\ send[s].layerBuilds # {}
           /\ ~ send[s].partial

\* C9: a SendMessage call returns without an error only if no relay's call
\* to its next hop has failed on the way.
ResultPropagation ==
    \A s \in SendIds : send[s].pc = "done" => ~ send[s].failed

\* C10: while the proxy runs, the renewal goroutine that a successful
\* Connect has started is still in its loop.
RenewalKeepsRecurring ==
    \A c \in ConnectIds :
        (opAlive /\ build[c].pc = "connected")
        => build[RenewOf(c)].pc # "stopped"

(***************************************************************************)
(* The session up to its first renewal: the Connect call, the SendMessage  *)
(* calls and the relays, every call answered.  SendDialFails is left out:  *)
(* before a renewal the guard is reached by the proxy's own cell only, so  *)
(* it cannot be down while the proxy runs.                                 *)
(***************************************************************************)
SendStepFirstCircuit(s) ==
    \/ SendMessage(s)
    \/ SendOnionize(s)
    \/ SendPanics(s)
    \/ SendChatMessageOnion(s)
    \/ DecryptChatMessageCell(s)
    \/ RelayReturn(s)
    \/ SendReturn(s)

NextFirstCircuit ==
    \/ Connect(Session)
    \/ BuildFetch(Session)
    \/ BuildKeyExchange(Session)
    \/ BuildRecord(Session)
    \/ BuildDialFails(Session)
    \/ \E s \in SendIds : SendStepFirstCircuit(s)

SpecFirstCircuit == Init /\ [][NextFirstCircuit]_vars

\* Every goroutine that can take a step takes one, and every call returns.
FairFirstCircuit ==
    /\ Init /\ [][NextFirstCircuit]_vars
    /\ \A s \in SendIds : WF_vars(SendStepFirstCircuit(s))

\* Send s started on a complete circuit of three different relays that were
\* running and had acknowledged their key exchange, and no build has started
\* since.
Path(s) == builds[send[s].startSeq].order

OnCompleteCircuit(s) ==
    /\ send[s].pc # "idle"
    /\ send[s].clean
    /\ send[s].pathUp
    /\ Len(Path(s)) = 3
    /\ Cardinality({Path(s)[i] : i \in 1 .. 3}) = 3
    /\ \A k \in kxLog : k.build = send[s].startSeq => k.ok

Undisturbed(s) == Len(builds) = send[s].startSeq

LayerSize == Len(JsonMarshalOnion(ZeroOnion)) + 1

ChatOf(s) == [IRCServerAddr |-> IrcAddr, Username |-> username,
              Message |-> send[s].msg]

Delivered(s) ==
    /\ send[s].pc = "done"
    /\ Len(send[s].trail) = 3
    /\ send[s].pubs = <<[user |-> username, text |-> send[s].msg]>>

EndToEndSafe ==
    \A s \in SendIds :
        (OnCompleteCircuit(s) /\ Undisturbed(s))
        => /\ Len(send[s].trail) <= 3
           /\ \A i \in 1 .. Len(send[s].trail) :
                 LET seen == send[s].trail[i]
                 IN  /\ seen.relay = Path(s)[i]
                     /\ seen.known
                     /\ seen.exit <=> (i = 3)
                     /\ i < 3 => seen.next = Path(s)[i + 1]
                     /\ seen.left = Len(JsonMarshalChat(ChatOf(s)))
                                      + (3 - i) * LayerSize
                     /\ seen.outcome = IF i = 3 THEN "delivered" ELSE "forwarded"
           /\ send[s].pubs = IF Len(send[s].trail) = 3
                             THEN <<[user |-> username, text |-> send[s].msg]>>
                             ELSE <<>>
           /\ send[s].pc \notin {"panic", "fatal"}
           /\ send[s].pc = "done" => Delivered(s)

\* C8: a send on a complete circuit [Guard, Middle, Exit], with no renewal
\* meanwhile, has its cell handled by Guard, then Middle, then Exit, each
\* taking off one layer, the exit flag decoded at Exit only; the exit sink
\* gets one PublishMessage, with the text sent; and the send gets there.
EndToEnd ==
    /\ []EndToEndSafe
    /\ \A s \in SendIds :
          [](OnCompleteCircuit(s) => <>(Delivered(s) \/ ~ Undisturbed(s)))

EndToEndWitness ==
    \E s \in SendIds :
        /\ OnCompleteCircuit(s)
        /\ Undisturbed(s)
        /\ Delivered(s)
        /\ send[s].msg = <<2, 0>>
        /\ send[s].trail[3].exit

(***************************************************************************)
(* Properties of circuit construction.                                     *)
(***************************************************************************)
\* The circuit id that build n drew in its first statement.
DrawnBy(n) == Uint32(n - 1)

\* C11: a build that has ended with the trust error has left the proxy's
\* circuit id and hop table as they were: the proxy does not hold the id that
\* build drew, no hop entry is of that build, and no cell carries that id.
TrustErrorKeepsCircuit ==
    \A n \in 1 .. Len(builds) :
        builds[n].status = "trustError"
        => /\ circuitId # DrawnBy(n)
           /\ \A h \in DOMAIN ORInfoByHopNum : ORInfoByHopNum[h].build # n
           /\ \A s \in SendIds : send[s].cid # DrawnBy(n)

\* C16: the SendCircuitInfo calls of one build all carry the circuit id that
\* build drew, also when another build runs at the same time; and once no
\* build runs, that id of the build started last is the one the proxy holds.
OneCircuitIdPerBuild ==
    /\ \A k \in kxLog : k.cid = DrawnBy(k.build)
    /\ \A k \in kxLog :
          (~ BuildRunning /\ k.build = Len(builds)) => k.cid = circuitId

Successors(r) ==
    UNION { { builds[n].order[i + 1] :
                i \in { j \in 1 .. (Len(builds[n].order) - 1) :
                            builds[n].order[j] = r } } :
            n \in 1 .. Len(builds) }

KeyAgreement ==
    (~ BuildRunning /\ builds # <<>> /\ builds[Len(builds)].status = "complete")
    => \A h \in DOMAIN ORInfoByHopNum :
          KeyFor(sharedKeysByCircuitId, ORInfoByHopNum[h].address, circuitId)
            = ORInfoByHopNum[h].sharedKey

\* C20: once a build has completed and none runs, the hop table has the hops
\* 0 .. n-1 of that build's node set, in its order, and nothing else; n is
\* the number of layers the next send wraps.
HopTableMatchesNodeSet ==
    (~ BuildRunning /\ builds # <<>> /\ builds[Len(builds)].status = "complete")
    => LET order == builds[Len(builds)].order
       IN  /\ DOMAIN ORInfoByHopNum = 0 .. (Len(order) - 1)
           /\ HopCount(ORInfoByHopNum) = Len(order)
           /\ \A h \in DOMAIN ORInfoByHopNum :
                 /\ h + 1 \in DOMAIN order
                    => ORInfoByHopNum[h].address = order[h + 1]
                 /\ ORInfoByHopNum[h].build = Len(builds)

(***************************************************************************)
(* Properties of the relay's cell handler.                                 *)
(***************************************************************************)
\* C12: a relay that holds a key for the cell's circuit but whose decrypt
\* does not unmarshal into an onion layer reports a DecodeError to its caller;
\* it does not go on to forward or to deliver.
DecodeErrorReported ==
    \A x \in Handled :
        (At(x).known /\ ~ At(x).decoded) => At(x).outcome = "DecodeError"

\* The handler of the cell of send s runs in this step.
Handles(s) == Len(send'[s].trail) = Len(send[s].trail) + 1

\* C15: when a relay decodes a non-exit layer from a cell, the cell it sends
\* on goes to the layer's next address, carries the incoming cell's circuit
\* id and has the layer's payload as its data (or the dial fails and no cell
\* is sent); nothing goes to the exit sink.
ForwardingPreservesCircuit ==
    [][\A s \in SendIds :
          LET cell == send[s].down
              key == KeyFor(sharedKeysByCircuitId, cell.relay, cell.cid)
              layer == DecryptLayer(key, cell.data)
          IN  (Handles(s) /\ key # NoKey /\ Decodes(key, cell.data)
                 /\ ~ layer.IsExitNode)
              => /\ send'[s].pubs = send[s].pubs
                 /\ \/ /\ orAlive'[cell.relay]
                       /\ send'[s].down.relay = layer.NextAddress
                       /\ send'[s].down.cid = cell.cid
                       /\ send'[s].down.data = layer.Data
                    \/ /\ ~ orAlive'[cell.relay]
                       /\ ~ CanDial(layer.NextAddress)
                       /\ send'[s].down = None]_vars

\* The guard of a three-hop circuit has forwarded a cell, and the middle relay
\* has found its key under the cell's circuit id and decoded its layer.
ForwardingWitness ==
    \E s \in SendIds :
        /\ Len(send[s].trail) >= 2
        /\ send[s].trail[1].outcome = "forwarded"
        /\ send[s].trail[2].relay = send[s].trail[1].next
        /\ send[s].trail[2].decoded
        /\ send[s].trail[2].outcome = "forwarded"

(***************************************************************************)
(* One onion router process, goroutine by goroutine: main starts the       *)
(* heartbeat loop and serves every inbound connection in a goroutine of    *)
(* its own; the handlers use the map sharedKeysByCircuitId with no lock.   *)
(* A handler's use of the map takes two steps, so that two uses can be     *)
(* seen to overlap.  The Go runtime may detect a map write that overlaps   *)
(* another use of the map and end the process; it may also not detect it.  *)
(***************************************************************************)
CallIds == 1 .. MaxCalls
Methods == {"SendCircuitInfo", "DecryptChatMessageCell"}

NoCall == [pc |-> "none", method |-> "", cid |-> 0, key |-> NoKey]

InitRouter ==
    /\ InitProtocol
    /\ rt = RtOff
    /\ rp = [alive |-> TRUE,
             table |-> [c \in CircuitIds |-> NoKey],
             call |-> [c \in CallIds |-> NoCall],
             beats |-> 0,
             failed |-> 0]

protocolVars == <<proxyVars, buildVars, faults, randVars, send, relayVars, rt>>

\* onionRouterServer.ServeConn reads a request and starts its handler.
ServeConn(c) ==
    /\ rp.alive
    /\ rp.call[c].pc = "none"
    /\ \E m \in Methods, cid \in CircuitIds, key \in {1, 2} :
          rp' = [rp EXCEPT !.call[c] =
                    [pc |-> "start", method |-> m, cid |-> cid,
                     key |-> IF m = "SendCircuitInfo" THEN key ELSE NoKey]]
    /\ UNCHANGED protocolVars

\* The handler starts its use of the map: the assignment in SendCircuitInfo,
\* the lookup in DecryptChatMessageCell.  Nothing makes it wait.
MapAccessBegins(c) ==
    /\ rp.alive
    /\ rp.call[c].pc = "start"
    /\ rp' = [rp EXCEPT !.call[c].pc = "inMap"]
    /\ UNCHANGED protocolVars

\* A map write overlaps another use of the map.
MapRace(c) ==
    \E d \in CallIds \ {c} :
        /\ rp.call[c].pc = "inMap"
        /\ rp.call[d].pc = "inMap"
        /\ "SendCircuitInfo" \in {rp.call[c].method, rp.call[d].method}

\* The use of the map ends: SendCircuitInfo has stored the key and
\* acknowledges; DecryptChatMessageCell has the key and goes on with it.
MapAccessEnds(c) ==
    /\ rp.alive
    /\ rp.call[c].pc = "inMap"
    /\ rp' = IF rp.call[c].method = "SendCircuitInfo"
             THEN [rp EXCEPT !.table[rp.call[c].cid] = rp.call[c].key,
                             !.call[c].pc = "done"]
             ELSE [rp EXCEPT !.call[c].key = rp.table[rp.call[c].cid],
                             !.call[c].pc = "done"]
    /\ UNCHANGED protocolVars

\* The runtime detects the overlapping map write: a fatal error, which ends
\* the process.
ConcurrentMapWrites(c) ==
    /\ rp.alive
    /\ MapRace(c)
    /\ rp' = [rp EXCEPT !.alive = FALSE]
    /\ UNCHANGED protocolVars

\* The connection of a served call closes; the next one is accepted.
ConnClosed(c) ==
    /\ rp.alive
    /\ rp.call[c].pc = "done"
    /\ rp' = [rp EXCEPT !.call[c] = NoCall]
    /\ UNCHANGED protocolVars

\* sendHeartBeat: the call to the directory server returns nil; the loop
\* sleeps and goes round.
sendHeartBeat ==
    /\ rp.alive
    /\ rp.beats < MaxBeats
    /\ rp' = [rp EXCEPT !.beats = @ + 1]
    /\ UNCHANGED protocolVars

\* sendHeartBeat when the call returns an error: HandleFatalError.
sendHeartBeatFails ==
    /\ rp.alive
    /\ rp.beats < MaxBeats
    /\ rp' = [rp EXCEPT !.beats = @ + 1,
                        !.failed = @ + 1,
                        !.alive = ~ HandleFatalError("heartbeat")]
    /\ UNCHANGED protocolVars

NextRouter ==
    \/ \E c \in CallIds : \/ ServeConn(c)
                          \/ MapAccessBegins(c)
                          \/ MapAccessEnds(c)
                          \/ ConcurrentMapWrites(c)
                          \/ ConnClosed(c)
    \/ sendHeartBeat
    \/ sendHeartBeatFails

SpecRouter == InitRouter /\ [][NextRouter]_vars

\* C13: an onion router whose heartbeat call has failed still runs, so that
\* it serves calls and sends the next heartbeat.
HeartbeatFailureNonFatal == rp.failed > 0 => rp.alive

\* C14: no write to the circuit-key table is in progress while another
\* use of the table, write or lookup, is in progress.
TableAccessLocked == \A c \in CallIds : ~ MapRace(c)

(***************************************************************************)
(* The codec on its own: OnionizeData on a table that no one writes, then  *)
(* one DecryptChatMessageCell decrypt per hop, each with that hop's key.   *)
(***************************************************************************)
CodecOrders == NodeOrders \cup { <<2>>, <<2, 1>> }

\* A hop table of the given node order with any keys.
HopTables ==
    UNION { { [h \in 0 .. (Len(order) - 1) |->
                  [address |-> order[h + 1], pubKey |-> order[h + 1],
                   sharedKey |-> ks[h], build |-> 0]] :
              ks \in [0 .. (Len(order) - 1) -> Keys] } :
            order \in CodecOrders }

InitCodec ==
    /\ InitProtocol
    /\ rp = RpOff
    /\ rt \in UNION { { [phase |-> "plain", table |-> t, msg |-> m, ivs |-> v,
                        data |-> m, step |-> 0, layers |-> <<>>] :
                       m \in Messages \cup {<<>>}, v \in [DOMAIN t -> IVs] } :
                     t \in HopTables }

\* op.OnionizeData(M)
CodecOnionize ==
    /\ rt.phase = "plain"
    /\ rt' = [rt EXCEPT !.phase = "onion",
                        !.data = OnionizeData(rt.table, rt.msg, rt.ivs)]
    /\ UNCHANGED <<proxyVars, buildVars, faults, randVars, send, relayVars, rp>>

\* One relay-side unwrap, with the key of hop rt.step.
CodecUnwrap ==
    /\ rt.phase = "onion"
    /\ rt.step < HopCount(rt.table)
    /\ LET onion == DecryptLayer(rt.table[rt.step].sharedKey, rt.data)
       IN  rt' = [rt EXCEPT !.step = @ + 1,
                            !.layers = Append(@, onion),
                            !.data = onion.Data]
    /\ UNCHANGED <<proxyVars, buildVars, faults, randVars, send, relayVars, rp>>

NextCodec == CodecOnionize \/ CodecUnwrap

SpecCodec == InitCodec /\ [][NextCodec]_vars

\* C1: n one-layer decrypts of OnionizeData(M), with hop i's key at step i,
\* recover M; the exit flag is set at the n-th unwrap and at no earlier one;
\* the next address decoded at an earlier step i is the address of hop i+1.
RoundTrip ==
    rt.phase = "onion" =>
        LET n == HopCount(rt.table)
        IN  /\ \A j \in 1 .. Len(rt.layers) :
                  /\ rt.layers[j].IsExitNode <=> (j = n)
                  /\ j < n => rt.layers[j].NextAddress = rt.table[j].address
            /\ rt.step = n => rt.data = rt.msg

RoundTripWitness ==
    /\ rt.phase = "onion"
    /\ HopCount(rt.table) = 3
    /\ rt.step = 3
    /\ rt.msg = <<2, 0>>
    /\ rt.data = rt.msg
    /\ rt.layers[3].IsExitNode
====
